---- MODULE Spec2Model ----
(***************************************************************************)
(* Model of src/genai/rag_engine.py: the RAGEngine class (corpus loader,   *)
(* chunker, lexical retriever, prompt builder, answer synthesizer).        *)
(*                                                                         *)
(* Text representation.  A Python string is modelled as a sequence of      *)
(* lexemes (TLA+ strings).  A text read from a file or typed by a caller   *)
(* is the lexemes joined by one space; the lexeme WS is a tab (whitespace  *)
(* that is no part of a blank line).  A rendered text (answer,             *)
(* prompt) is a sequence of pieces concatenated directly.  Every substring *)
(* the code searches for ("growth", "manufacturing", ">20", "high",        *)
(* "RESPONSE:", ".md") contains no space, so it lies inside one lexeme.    *)
(***************************************************************************)
EXTENDS Integers, Sequences, FiniteSets, TLC

VARIABLES dir, setOrder, pc, documents, chunks, call, result, served

vars == <<dir, setOrder, pc, documents, chunks, call, result, served>>

(* ------------------------------ bounds --------------------------------- *)
\* most files a corpus directory holds
MaxFiles == 2
\* retrieve is called with top_k in -MinusTopK .. MaxTopK
MaxTopK == 3
MinusTopK == 1

(* ------------------------- program constants --------------------------- *)
DefaultTopK == 5
GrowthBoost == 2
ManufacturingBoost == 2
GrowthThreshold == 20

(* --------------------------- small helpers ----------------------------- *)
Min(a, b) == IF a <= b THEN a ELSE b
Max(a, b) == IF a >= b THEN a ELSE b

Range(s) == {s[i] : i \in 1..Len(s)}

RECURSIVE Flatten(_)
Flatten(ss) == IF ss = <<>> THEN <<>> ELSE Head(ss) \o Flatten(Tail(ss))

\* sep.join(parts) where every part is a sequence of pieces
RECURSIVE Join(_, _)
Join(parts, sep) ==
    IF parts = <<>> THEN <<>>
    ELSE IF Len(parts) = 1 THEN parts[1]
    ELSE parts[1] \o sep \o Join(Tail(parts), sep)

(* ------------------------------ lexemes -------------------------------- *)
WS == "\t"

\* str.lower() on one lexeme
LowerLexeme(w) ==
    CASE w = "Revenue" -> "revenue"
      [] w = "Manufacturing" -> "manufacturing"
      [] w = "High" -> "high"
      [] w = "RESPONSE:" -> "response:"
      [] OTHER -> w

Lower(text) == [i \in 1..Len(text) |-> LowerLexeme(text[i])]

\* re.findall(r'\b\w+\b', w) on one lexeme: its maximal alphanumeric runs
WordTokens(w) ==
    CASE w = WS -> {}
      [] w = "25.0%" -> {"25", "0"}
      [] w = "20%" -> {"20"}
      [] w = ">20%" -> {"20"}
      [] w = "1.2.3%" -> {"1", "2", "3"}
      [] w = "response:" -> {"response"}
      [] OTHER -> {w}

\* set(re.findall(r'\b\w+\b', text))
Tokens(text) == UNION {WordTokens(text[i]) : i \in 1..Len(text)}

\* needle in w, for one lexeme w and a needle that holds no space
LexemeHas(w, needle) ==
    \/ w = needle
    \/ w = ">20%" /\ needle = ">20"

\* needle in text
Contains(text, needle) == \E i \in 1..Len(text) : LexemeHas(text[i], needle)

\* str.strip(): drop the leading and the trailing whitespace
RECURSIVE LStrip(_)
LStrip(text) ==
    IF text # <<>> /\ Head(text) = WS THEN LStrip(Tail(text)) ELSE text

RECURSIVE RStrip(_)
RStrip(text) ==
    IF text # <<>> /\ text[Len(text)] = WS
    THEN RStrip(SubSeq(text, 1, Len(text) - 1))
    ELSE text

Strip(text) == RStrip(LStrip(text))

(* --------------------------- corpus loader ----------------------------- *)
\* filename.endswith(".md"); a file name is the sequence of its parts
EndsWithMd(name) == name # <<>> /\ name[Len(name)] = ".md"

\* filename.replace(".md", ""): every occurrence of ".md" is removed
ReplaceMd(name) == SelectSeq(name, LAMBDA p : p # ".md")

\* load_documents without the endswith(".md") test
LoadAllFiles(d) ==
    IF ~d.exists THEN <<>>
    ELSE [i \in 1..Len(d.listing) |->
             [id |-> ReplaceMd(d.listing[i].name),
              content |-> d.listing[i].content]]

\* RAGEngine.load_documents: d.listing is os.listdir order
LoadDocuments(d) ==
    IF ~d.exists THEN <<>>
    ELSE LET md == SelectSeq(d.listing, LAMBDA f : EndsWithMd(f.name))
         IN  [i \in 1..Len(md) |->
                 [id |-> ReplaceMd(md[i].name), content |-> md[i].content]]

(* ------------------------------ chunker -------------------------------- *)
\* the loop of create_chunks without its "if p.strip()"
RECURSIVE ChunksKeepBlank(_, _)
ChunksKeepBlank(doc, i) ==
    IF i > Len(doc.content) THEN <<>>
    ELSE <<[doc_id |-> doc.id,
            chunk_id |-> doc.id \o <<"_", ToString(i - 1)>>,
            text |-> Strip(doc.content[i])]>> \o ChunksKeepBlank(doc, i + 1)

\* the chunks of one document; doc.content is content.split("\n\n")
RECURSIVE ChunksFrom(_, _)
ChunksFrom(doc, i) ==
    IF i > Len(doc.content) THEN <<>>
    ELSE LET p == doc.content[i]
             rest == ChunksFrom(doc, i + 1)
         IN  IF Strip(p) # <<>>
             THEN <<[doc_id |-> doc.id,
                     chunk_id |-> doc.id \o <<"_", ToString(i - 1)>>,
                     text |-> Strip(p)]>> \o rest
             ELSE rest

\* RAGEngine.create_chunks
CreateChunks(docs) ==
    Flatten([d \in 1..Len(docs) |-> ChunksFrom(docs[d], 1)])

(* ----------------------------- retriever ------------------------------- *)
\* the score retrieve gives one chunk
Score(query, chunk) ==
    LET query_terms == Tokens(Lower(query))
        chunk_text == Lower(chunk.text)
        chunk_words == Tokens(chunk_text)
        overlap == Cardinality(query_terms \cap chunk_words)
        growth == IF Contains(Lower(query), "growth")
                     /\ Contains(chunk_text, "growth")
                  THEN GrowthBoost ELSE 0
        manufacturing == IF Contains(Lower(query), "manufacturing")
                            /\ Contains(chunk_text, "manufacturing")
                         THEN ManufacturingBoost ELSE 0
    IN  overlap + growth + manufacturing

\* scores.sort(key=lambda x: x[0], reverse=True): stable, descending
RECURSIVE SortFrom(_, _)
SortFrom(scores, keys) ==
    IF keys = {} THEN <<>>
    ELSE LET m == CHOOSE k \in keys : \A j \in keys : j <= k
         IN  SelectSeq(scores, LAMBDA x : x.score = m)
                 \o SortFrom(scores, keys \ {m})

\* a sort that is ascending and then reversed: equal scores change places
RECURSIVE Reverse(_)
Reverse(s) == IF s = <<>> THEN <<>> ELSE Reverse(Tail(s)) \o <<Head(s)>>

SortTiesReversed(scores) ==
    SortFrom(Reverse(scores), {scores[i].score : i \in 1..Len(scores)})

SortByScore(scores) == SortFrom(scores, {scores[i].score : i \in 1..Len(scores)})

\* scores[:top_k], Python slice semantics (a negative top_k counts from the end)
Prefix(scores, top_k) ==
    IF top_k >= 0 THEN SubSeq(scores, 1, Min(top_k, Len(scores)))
    ELSE SubSeq(scores, 1, Max(Len(scores) + top_k, 0))

\* the comprehension without its "if item[0] > 0"
KeepAll(scores) == [i \in 1..Len(scores) |-> scores[i].chunk]

\* [item[1] for item in ... if item[0] > 0]
KeepPositive(scores) ==
    LET kept == SelectSeq(scores, LAMBDA x : x.score > 0)
    IN  [i \in 1..Len(kept) |-> kept[i].chunk]

\* RAGEngine.retrieve
Retrieve(cs, query, top_k) ==
    LET scores == [i \in 1..Len(cs) |->
                      [score |-> Score(query, cs[i]), chunk |-> cs[i]]]
    IN  KeepPositive(Prefix(SortByScore(scores), top_k))

(* --------------------------- prompt builder ---------------------------- *)
None == <<"None">>

DefaultSystem == <<"You are a Partner Insights Assistant. Using the following retrieved context, answer the user's question accurately. If the answer is not in the context, state that you don't have enough information.">>

Marker == "RESPONSE:"

\* RAGEngine.generate_prompt; system_prompt is None or a text
GeneratePrompt(query, retrieved_chunks, system_prompt) ==
    LET context == Join([i \in 1..Len(retrieved_chunks) |->
                            <<"--- Context from ">> \o retrieved_chunks[i].doc_id
                                \o <<" ---\n">> \o retrieved_chunks[i].text],
                        <<"\n\n">>)
        effective_system == IF system_prompt # None /\ system_prompt # <<>>
                            THEN system_prompt ELSE DefaultSystem
    IN  <<"\n">> \o effective_system \o <<"\n\nCONTEXT:\n">> \o context
            \o <<"\n\nUSER QUESTION:\n">> \o query \o <<"\n\n", Marker, "\n">>

\* prompt_template.replace("RESPONSE:", f"RESPONSE:\n{response}"): every
\* occurrence of the marker is replaced
RECURSIVE ReplaceMarker(_, _)
ReplaceMarker(template, response) ==
    IF template = <<>> THEN <<>>
    ELSE (IF LexemeHas(Head(template), Marker)
          THEN <<Marker, "\n">> \o response
          ELSE <<Head(template)>>)
             \o ReplaceMarker(Tail(template), response)

(* ------------------------- answer synthesizer --------------------------- *)
NoInfoMsg == "I couldn't find any relevant details in the current partner knowledge base to answer that."
RetrievalFailed == "RETRIVAL FAILED\n\n"
GrowthHeading == "### Detailed Growth Analysis\n"
HighMomentum == " - High Momentum"
NoneExceedMsg == "I found growth data for several partners, but none currently exceed the specifically requested 20% growth threshold."
NoMetricsMsg == "I see mentions of growth initiatives in the partner profiles, but specific percentage metrics were not found in the retrieved sections."
MfgPrefix == "The following partners are currently categorized as **Manufacturing** sector experts: "
NoMfgMsg == "I couldn't find any partners specifically tagged with Manufacturing industry focus in the current retrieved documents."
GenericPrefix == "I have analyzed profiles for "
GenericSuffix == ". Most show a strong strategic focus on digital transformation and IBM watsonx integration."
Closing == "\n\n**[IBM AI Insight]**: This data suggests a healthy pipeline for GenAI enablement. I recommend focusing on partners with growth >15% for the upcoming IBM ecosystem waves."

\* the group ([\d.]+) when lexeme w starts with [\d.]+% , else None
GrowthGroup(w) ==
    CASE w = "25.0%" -> "25.0"
      [] w = "20%" -> "20"
      [] w = "1.2.3%" -> "1.2.3"
      [] OTHER -> "None"

\* re.search(r"Revenue growth of ([\d.]+)%", text): group 1 of the leftmost
\* match, or "None"
RECURSIVE GrowthSearch(_, _)
GrowthSearch(text, i) ==
    IF i + 3 > Len(text) THEN "None"
    ELSE IF /\ text[i] = "Revenue" /\ text[i + 1] = "growth" /\ text[i + 2] = "of"
            /\ GrowthGroup(text[i + 3]) # "None"
         THEN GrowthGroup(text[i + 3])
         ELSE GrowthSearch(text, i + 1)

\* float(g_val) in tenths, or "ValueError" when g_val is no float literal
ParseFloat(g_val) ==
    CASE g_val = "25.0" -> [ok |-> TRUE, tenths |-> 250]
      [] g_val = "20" -> [ok |-> TRUE, tenths |-> 200]
      [] OTHER -> [ok |-> FALSE, tenths |-> 0]

\* float(g_val) >= 20
IsHighInclusive(g_val) == ParseFloat(g_val).tenths >= GrowthThreshold * 10

\* float(g_val) > 20
IsHigh(g_val) == ParseFloat(g_val).tenths > GrowthThreshold * 10

\* ">20" in user_query or "high" in user_query (case-sensitive)
WantsHigh(user_query) == Contains(user_query, ">20") \/ Contains(user_query, "high")

\* list(set(ids)): the ids without repetition, in the order the process's
\* string hashing gives them (order lists every possible id once)
SetToList(ids, order) == SelectSeq(order, LAMBDA d : d \in ids)

\* the (doc_id, group) pairs of the retrieved chunks the pattern matches
GrowthMatches(retrieved) ==
    LET hit == SelectSeq(retrieved, LAMBDA r : GrowthSearch(r.text, 1) # "None")
    IN  [i \in 1..Len(hit) |->
            [p_id |-> hit[i].doc_id, g_val |-> GrowthSearch(hit[i].text, 1)]]

\* the bullet texts of the growth branch
GrowthResults(matches, user_query) ==
    LET kept == IF WantsHigh(user_query)
                THEN SelectSeq(matches, LAMBDA m : IsHigh(m.g_val))
                ELSE matches
    IN  [i \in 1..Len(kept) |->
            <<"**">> \o kept[i].p_id \o <<"** (", kept[i].g_val, "% growth)">>
                \o (IF WantsHigh(user_query) THEN <<HighMomentum>> ELSE <<>>)]

\* the growth branch of query, before the closing sentence
GrowthResponse(retrieved, user_query) ==
    LET matches == GrowthMatches(retrieved)
        results == GrowthResults(matches, user_query)
    IN  IF matches # <<>>
        THEN IF results # <<>>
             THEN <<GrowthHeading>>
                      \o Join([i \in 1..Len(results) |-> <<"- ">> \o results[i]],
                              <<"\n">>)
             ELSE <<NoneExceedMsg>>
        ELSE <<NoMetricsMsg>>

\* the manufacturing branch without the test of the chunk text
AllRetrievedPartners(retrieved, order) ==
    LET partners == SetToList({retrieved[i].doc_id : i \in 1..Len(retrieved)}, order)
    IN  IF partners # <<>>
        THEN <<MfgPrefix>> \o Join(partners, <<", ">>) \o <<".">>
        ELSE <<NoMfgMsg>>

\* the manufacturing branch of query
ManufacturingResponse(retrieved, order) ==
    LET partners == SetToList({retrieved[i].doc_id : i \in
                        {j \in 1..Len(retrieved) :
                            Contains(Lower(retrieved[j].text), "manufacturing")}},
                        order)
    IN  IF partners # <<>>
        THEN <<MfgPrefix>> \o Join(partners, <<", ">>) \o <<".">>
        ELSE <<NoMfgMsg>>

\* the generic branch of query
GenericResponse(retrieved, order) ==
    LET partners == SetToList({retrieved[i].doc_id : i \in 1..Len(retrieved)}, order)
    IN  <<GenericPrefix>> \o Join(partners, <<", ">>) \o <<GenericSuffix>>

\* the branch query takes for a non-empty retrieval
Branch(retrieved, user_query) ==
    LET all_text == Join([i \in 1..Len(retrieved) |-> retrieved[i].text], <<>>)
    IN  IF Contains(Lower(user_query), "growth") \/ Contains(Lower(all_text), "growth")
        THEN "growth"
        ELSE IF Contains(Lower(user_query), "manufacturing")
             THEN "manufacturing"
             ELSE "generic"

\* float(g_val) raises for some match of the growth branch
FloatRaises(retrieved, user_query) ==
    /\ Branch(retrieved, user_query) = "growth"
    /\ \E i \in 1..Len(GrowthMatches(retrieved)) :
           ~ParseFloat(GrowthMatches(retrieved)[i].g_val).ok

\* RAGEngine.query: what the call returns or raises
Query(cs, order, user_query, system_prompt) ==
    LET retrieved == Retrieve(cs, user_query, DefaultTopK)
        branch == Branch(retrieved, user_query)
        response ==
            (CASE branch = "growth" -> GrowthResponse(retrieved, user_query)
               [] branch = "manufacturing" -> ManufacturingResponse(retrieved, order)
               [] OTHER -> GenericResponse(retrieved, order))
            \o <<Closing>>
        prompt_template == GeneratePrompt(user_query, retrieved, system_prompt)
    IN  IF retrieved = <<>>
        THEN [kind |-> "return", answer |-> <<NoInfoMsg>>,
              trace |-> <<RetrievalFailed, NoInfoMsg>>]
        ELSE IF FloatRaises(retrieved, user_query)
        THEN [kind |-> "raise", answer |-> <<"ValueError">>, trace |-> <<>>]
        ELSE [kind |-> "return", answer |-> response,
              trace |-> ReplaceMarker(prompt_template, response)]

(* ------------------------------ inputs --------------------------------- *)
\* paragraphs a profile document is made of
PHigh == <<"Revenue", "growth", "of", "25.0%">>
PBad == <<"Revenue", "growth", "of", "1.2.3%">>
PTwo == <<"Revenue", "growth", "of", "20%", "Revenue", "growth", "of", "25.0%">>
PMfg == <<"Manufacturing", "partner">>
PGen == <<WS, "partner", WS>>
PGrowth == <<"growth", "partner">>
PBlank == <<WS>>

\* document contents, each as content.split("\n\n")
Contents ==
    { <<PHigh, PMfg>>,
      <<PTwo, PBlank, PGen>>,
      <<PBad>>,
      <<PMfg, PGen, PGrowth>> }

FileNames ==
    { <<"a", ".md">>, <<"b", ".md">>, <<"a", ".md", ".md">>, <<"c", ".txt">> }

Files == [name : FileNames, content : Contents]

\* directory listings: at most MaxFiles files, no name twice
Listings ==
    UNION { {l \in [1..n -> Files] :
                \A i, j \in 1..n : i # j => l[i].name # l[j].name} :
            n \in 0..MaxFiles }

Directories ==
    {[exists |-> FALSE, listing |-> <<>>]}
        \cup {[exists |-> TRUE, listing |-> l] : l \in Listings}

\* the orders in which the process's string hashing can list the document
\* ids of directory d
Orders(d) ==
    LET docs == LoadDocuments(d)
        ids == {docs[i].id : i \in 1..Len(docs)}
        n == Cardinality(ids)
    IN  {o \in [1..n -> ids] : \A i, j \in 1..n : i # j => o[i] # o[j]}

Queries ==
    { <<"growth">>,
      <<"high", "growth">>,
      <<"partner", ">20%">>,
      <<"Manufacturing", "partner">>,
      <<"partner">>,
      <<"RESPONSE:", "partner">> }

SystemPrompts == { None, <<"Be", "brief">> }

TopKs == (0 - MinusTopK)..MaxTopK

(* --------------------------- state machine ------------------------------ *)
NoCall == [op |-> "none", query |-> <<>>, top_k |-> 0, system_prompt |-> None]
NoResult == [kind |-> "none", chunks |-> <<>>, answer |-> <<>>, trace |-> <<>>]

Init ==
    /\ dir \in Directories
    /\ setOrder \in Orders(dir)
    /\ pc = "new"
    /\ documents = <<>>
    /\ chunks = <<>>
    /\ call = NoCall
    /\ result = NoResult
    /\ served = FALSE

\* RAGEngine.__init__: load_documents, then create_chunks
Construct ==
    /\ pc = "new"
    /\ documents' = LoadDocuments(dir)
    /\ chunks' = CreateChunks(LoadDocuments(dir))
    /\ pc' = "ready"
    /\ UNCHANGED <<dir, setOrder, call, result, served>>

\* retrieve sorting self.chunks itself instead of the local list scores
RetrieveCallSortsInPlace ==
    /\ pc = "ready"
    /\ \E q \in Queries, k \in TopKs :
          LET sorted == SortByScore([i \in 1..Len(chunks) |->
                            [score |-> Score(q, chunks[i]), chunk |-> chunks[i]]])
          IN  /\ call' = [op |-> "retrieve", query |-> q, top_k |-> k,
                          system_prompt |-> None]
              /\ result' = [kind |-> "return", chunks |-> Retrieve(chunks, q, k),
                            answer |-> <<>>, trace |-> <<>>]
              /\ chunks' = [i \in 1..Len(sorted) |-> sorted[i].chunk]
    /\ pc' = "returned"
    /\ UNCHANGED <<dir, setOrder, documents, served>>

\* a caller runs retrieve(query, top_k)
RetrieveCall ==
    /\ pc = "ready"
    /\ \E q \in Queries, k \in TopKs :
          /\ call' = [op |-> "retrieve", query |-> q, top_k |-> k,
                      system_prompt |-> None]
          /\ result' = [kind |-> "return", chunks |-> Retrieve(chunks, q, k),
                        answer |-> <<>>, trace |-> <<>>]
    /\ pc' = "returned"
    /\ UNCHANGED <<dir, setOrder, documents, chunks, served>>

\* a caller runs query(user_query, system_prompt)
QueryCall ==
    /\ pc = "ready"
    /\ \E q \in Queries, sp \in SystemPrompts :
          /\ call' = [op |-> "query", query |-> q, top_k |-> DefaultTopK,
                      system_prompt |-> sp]
          /\ result' = [chunks |-> <<>>] @@ Query(chunks, setOrder, q, sp)
    /\ pc' = "returned"
    /\ UNCHANGED <<dir, setOrder, documents, chunks, served>>

\* the caller takes the result; the engine is ready for the next call
\* (served records that the engine has answered a call before)
Consume ==
    /\ pc = "returned"
    /\ pc' = "ready"
    /\ call' = NoCall
    /\ result' = NoResult
    /\ served' = TRUE
    /\ UNCHANGED <<dir, setOrder, documents, chunks>>

Next == Construct \/ RetrieveCall \/ QueryCall \/ Consume

Spec == Init /\ [][Next]_vars

(* ------------------------------ claims ---------------------------------- *)
Returned(op) == pc = "returned" /\ call.op = op

\* the score as the retriever's contract states it: the number of distinct
\* case-folded word tokens query and chunk share, plus 2 when both contain
\* "growth", plus 2 when both contain "manufacturing"
ContractScore(query, text) ==
    Cardinality(Tokens(Lower(query)) \cap Tokens(Lower(text)))
        + (IF Contains(Lower(query), "growth") /\ Contains(Lower(text), "growth")
           THEN 2 ELSE 0)
        + (IF Contains(Lower(query), "manufacturing")
              /\ Contains(Lower(text), "manufacturing")
           THEN 2 ELSE 0)

\* number of (possibly overlapping) places where sub occurs in s
CountSub(sub, s) ==
    Cardinality({i \in 1..(Len(s) - Len(sub) + 1) :
                    SubSeq(s, i, i + Len(sub) - 1) = sub})

\* how many members of s satisfy Test
Count(s, Test(_)) == Len(SelectSeq(s, Test))

\* C1: for a positive top_k, retrieve returns at most top_k chunks and every
\* returned chunk has a contract score above 0; so does the retrieval that
\* query runs with the default top_k
C1_AtMostTopKAllPositive ==
    /\ (Returned("retrieve") /\ call.top_k > 0) =>
          /\ result.kind = "return"
          /\ Len(result.chunks) <= call.top_k
          /\ \A i \in 1..Len(result.chunks) :
                ContractScore(call.query, result.chunks[i].text) > 0
    /\ Returned("query") =>
          LET R == Retrieve(chunks, call.query, DefaultTopK)
          IN  /\ Len(R) <= 5
              /\ \A i \in 1..Len(R) : ContractScore(call.query, R[i].text) > 0

\* a retrieve that cut the positive chunks down to top_k and met a chunk of
\* score 0
C1_Witness ==
    /\ Returned("retrieve") /\ call.top_k > 0
    /\ Len(result.chunks) = call.top_k
    /\ Count(chunks, LAMBDA c : ContractScore(call.query, c.text) > 0) > call.top_k
    /\ \E i \in 1..Len(chunks) : ContractScore(call.query, chunks[i].text) = 0

\* s is t with some members left out, the order kept
RECURSIVE IsSubsequence(_, _)
IsSubsequence(s, t) ==
    IF s = <<>> THEN TRUE
    ELSE IF t = <<>> THEN FALSE
    ELSE IF Head(s) = Head(t) THEN IsSubsequence(Tail(s), Tail(t))
    ELSE IsSubsequence(s, Tail(t))

\* the chunks of cs, each with its contract score
Scored(cs, query) ==
    [i \in 1..Len(cs) |-> [score |-> ContractScore(query, cs[i].text), chunk |-> cs[i]]]

ScoresOf(scored) == {scored[i].score : i \in 1..Len(scored)}

WithScore(scored, v) == SelectSeq(scored, LAMBDA x : x.score = v)

\* what C2 says of the returned chunks r and the engine's chunks cs, both
\* with their scores
DescendingStable(r, cs) ==
    /\ \A i \in 1..(Len(r) - 1) : r[i].score >= r[i + 1].score
    /\ \A v \in ScoresOf(r) : IsSubsequence(WithScore(r, v), WithScore(cs, v))
    /\ \A v \in ScoresOf(cs) :
          (\E w \in ScoresOf(r) : v > w) =>
              Len(WithScore(r, v)) = Len(WithScore(cs, v))

\* C2: the chunks retrieve returns are in descending score order, chunks of
\* equal score keep the order they have in the engine's chunk sequence, and
\* every chunk that scores higher than a returned chunk is returned too
C2_DescendingStable ==
    Returned("retrieve") =>
        DescendingStable(Scored(result.chunks, call.query), Scored(chunks, call.query))

\* a retrieve that returned two different chunks of equal score and one of
\* another score, and left a positive chunk out
C2_Witness ==
    /\ Returned("retrieve") /\ call.top_k > 0
    /\ \E i, j \in 1..Len(result.chunks) :
          /\ i < j
          /\ result.chunks[i] # result.chunks[j]
          /\ ContractScore(call.query, result.chunks[i].text)
                = ContractScore(call.query, result.chunks[j].text)
    /\ Cardinality(ScoresOf(Scored(result.chunks, call.query))) > 1
    /\ Count(chunks, LAMBDA c : ContractScore(call.query, c.text) > 0)
          > Len(result.chunks)

\* the directory is missing or holds no file whose name ends in ".md"
NoMarkdown ==
    ~dir.exists \/ \A i \in 1..Len(dir.listing) : ~EndsWithMd(dir.listing[i].name)

\* C3: over a missing directory or one without markdown files the engine is
\* constructed with no documents and no chunks, and every query returns the
\* fixed answer and the failure marker followed by that answer as the trace
C3_EmptyCorpusAnswer ==
    NoMarkdown =>
        /\ pc # "new" => documents = <<>> /\ chunks = <<>>
        /\ Returned("query") =>
              /\ result.kind = "return"
              /\ result.answer = <<"I couldn't find any relevant details in the current partner knowledge base to answer that.">>
              /\ result.trace = <<"RETRIVAL FAILED\n\n">> \o result.answer

\* a query over a directory that exists and holds only a file that is no
\* markdown file, whose text shares a word with the query
C3_Witness ==
    /\ NoMarkdown /\ dir.exists /\ Len(dir.listing) > 0
    /\ Returned("query")
    /\ \E i \in 1..Len(dir.listing), j \in 1..3 :
          /\ j <= Len(dir.listing[i].content)
          /\ Tokens(Lower(dir.listing[i].content[j])) \cap Tokens(Lower(call.query)) # {}

\* the chunks the query call of the current state retrieved
Retrieved == Retrieve(chunks, call.query, DefaultTopK)

\* a query call returned an answer made from a non-empty retrieval
Answered(R) == Returned("query") /\ result.kind = "return" /\ R # <<>>

Has(text, sub) == CountSub(sub, text) > 0

\* the growth branch: the query or a retrieved text contains "growth"
GrowthSignal(R) ==
    \/ Contains(Lower(call.query), "growth")
    \/ \E i \in 1..Len(R) : Contains(Lower(R[i].text), "growth")

\* the query asks for the high-growth filter
FilterAsked == Contains(call.query, ">20") \/ Contains(call.query, "high")

\* the value the pattern "Revenue growth of <number>%" gives for a chunk (its
\* leftmost match), in tenths; -1 when the text does not match
Extracted(chunk) ==
    LET g == GrowthSearch(chunk.text, 1)
    IN  IF g = "None" THEN [text |-> g, tenths |-> 0 - 1]
        ELSE [text |-> g, tenths |-> ParseFloat(g).tenths]

\* "**{doc_id}** ({value}% growth)"
BulletText(chunk) ==
    <<"**">> \o chunk.doc_id \o <<"** (", Extracted(chunk).text, "% growth)">>

Matching(R) == {i \in 1..Len(R) : Extracted(R[i]).tenths >= 0}
Above20(R) == {i \in 1..Len(R) : Extracted(R[i]).tenths > 200}

\* what C4 says of the bullets, with and without the filter
C4_Bullets(R) ==
    IF FilterAsked
    THEN /\ \A i \in Above20(R) :
               Has(result.answer, BulletText(R[i]) \o <<" - High Momentum">>)
         /\ \A i \in Matching(R) \ Above20(R) :
               ~Has(result.answer, BulletText(R[i]))
    ELSE /\ \A i \in Matching(R) : Has(result.answer, <<"- ">> \o BulletText(R[i]))
         /\ ~Has(result.answer, <<" - High Momentum">>)

NoneExceedSentence == "I found growth data for several partners, but none currently exceed the specifically requested 20% growth threshold."

ManufacturingIds(R) ==
    {R[i].doc_id : i \in
        {j \in 1..Len(R) : Contains(Lower(R[j].text), "manufacturing")}}

\* the answer names exactly the ids of ids, each once
NamesExactly(ids) ==
    \A d \in Range(setOrder) :
        CountSub(d, result.answer) = (IF d \in ids THEN 1 ELSE 0)

ManufacturingAsked ==
    /\ Contains(Lower(call.query), "manufacturing")
    /\ ~Contains(Lower(call.query), "growth")

\* C5 as stated: a query with "manufacturing" and without "growth" is answered
\* with exactly the ids of the retrieved manufacturing chunks
C5_AsStated ==
    LET R == Retrieved
    IN  (Answered(R) /\ ManufacturingAsked) => NamesExactly(ManufacturingIds(R))

\* C5 (amended): a query with "manufacturing" and without "growth", when no
\* retrieved chunk contains "growth" either, is answered with exactly the ids
\* of the retrieved chunks whose text contains "manufacturing", each once
C5_ManufacturingIds ==
    LET R == Retrieved
    IN  (Answered(R) /\ ManufacturingAsked /\ ~GrowthSignal(R))
            => NamesExactly(ManufacturingIds(R))

\* a manufacturing answer over a retrieval with a manufacturing chunk and a
\* chunk of another document that is none
C5_Witness ==
    LET R == Retrieved
    IN  /\ Answered(R) /\ ManufacturingAsked /\ ~GrowthSignal(R)
        /\ ManufacturingIds(R) # {}
        /\ \E i \in 1..Len(R) : R[i].doc_id \notin ManufacturingIds(R)

\* C6: the trace of an answered query holds the marker "RESPONSE:" once and
\* the answer once, right after the marker and a line break
C6_MarkerOnce ==
    Answered(Retrieved) =>
        /\ Count(result.trace, LAMBDA x : LexemeHas(x, "RESPONSE:")) = 1
        /\ CountSub(result.answer, result.trace) = 1
        /\ CountSub(<<"RESPONSE:", "\n">> \o result.answer, result.trace) = 1

\* C7: every query call, whatever calls the engine served before, returns
\* the answer and the trace the freshly constructed engine returns for the
\* same query and system prompt
C7_SameAnswerEveryCall ==
    Returned("query") =>
        LET fresh == Query(CreateChunks(LoadDocuments(dir)), setOrder,
                           call.query, call.system_prompt)
        IN  /\ result.kind = fresh.kind
            /\ result.answer = fresh.answer
            /\ result.trace = fresh.trace

\* a query answered from several chunks by an engine that served a call
\* before
C7_Witness == served /\ Answered(Retrieved) /\ Len(Retrieved) > 1

\* every file of the directory has a name ending in ".md"
AllMarkdown ==
    dir.exists /\ \A i \in 1..Len(dir.listing) : EndsWithMd(dir.listing[i].name)

\* C8: over distinct file names ending in ".md", no two documents have the
\* same id and no two chunks the same chunk_id
C8_UniqueIds ==
    (AllMarkdown /\ pc # "new") =>
        /\ \A i, j \in 1..Len(documents) : i # j => documents[i].id # documents[j].id
        /\ \A i, j \in 1..Len(chunks) : i # j => chunks[i].chunk_id # chunks[j].chunk_id

\* C9: query never raises
C9_QueryNeverRaises == Returned("query") => result.kind = "return"

\* C10: for top_k <= 0, retrieve raises or returns what retrieve(query, 1)
\* returns
C10_ClampOrReject ==
    (Returned("retrieve") /\ call.top_k <= 0) =>
        \/ result.kind = "raise"
        \/ result.chunks = Retrieve(chunks, call.query, 1)

\* the branch an answer comes from, told by the fixed text it starts with
FromGrowthBranch(answer) ==
    Head(answer) \in {GrowthHeading, NoneExceedMsg, NoMetricsMsg}
FromManufacturingBranch(answer) == Head(answer) \in {MfgPrefix, NoMfgMsg}
FromGenericBranch(answer) == Head(answer) = GenericPrefix

\* the answer ends with the "[IBM AI Insight]" closing sentence and holds it
\* once
ClosingAppended(answer) ==
    /\ answer[Len(answer)] = Closing
    /\ Count(answer, LAMBDA x : x = Closing) = 1

\* what C11 says of an answer made from the non-empty retrieval R
C11_BranchByPriority(R) ==
    /\ FromGrowthBranch(result.answer) <=> GrowthSignal(R)
    /\ FromManufacturingBranch(result.answer)
          <=> (~GrowthSignal(R) /\ Contains(Lower(call.query), "manufacturing"))
    /\ FromGenericBranch(result.answer)
          <=> (~GrowthSignal(R) /\ ~Contains(Lower(call.query), "manufacturing"))
    /\ ClosingAppended(result.answer)

\* C11: whenever the retrieval of a query call is non-empty, the call
\* produces an answer from exactly one branch: the growth branch iff the
\* query or a retrieved text contains "growth", otherwise the manufacturing
\* branch iff the query contains "manufacturing", otherwise the generic
\* branch, and the closing sentence is appended; the answer of an empty
\* retrieval does not hold the closing sentence
C11_OneBranchWithClosing ==
    Returned("query") =>
        LET R == Retrieved
        IN  IF R # <<>>
            THEN /\ result.kind = "return"
                 /\ C11_BranchByPriority(R)
            ELSE /\ result.kind = "return"
                 /\ ~Has(result.answer, <<Closing>>)

\* the branches and the closing sentence of the calls that return an answer
C11_WhenAnswered ==
    LET R == Retrieved
    IN  /\ Answered(R) => C11_BranchByPriority(R)
        /\ (Returned("query") /\ result.kind = "return" /\ R = <<>>)
              => ~Has(result.answer, <<Closing>>)

\* answered calls of all three branches exist; this one is of the
\* manufacturing branch, which needs the growth test to fail first
C11_ManufacturingTaken ==
    LET R == Retrieved
    IN  Answered(R) /\ FromManufacturingBranch(result.answer)

\* paragraph p is empty after trimming: it holds nothing but whitespace
Blank(p) == \A j \in 1..Len(p) : p[j] = WS

\* text is p without the whitespace at its two ends
TrimOf(p, text) ==
    /\ text # <<>>
    /\ text[1] # WS /\ text[Len(text)] # WS
    /\ \E a \in 1..Len(p) :
          /\ a + Len(text) - 1 <= Len(p)
          /\ text = SubSeq(p, a, a + Len(text) - 1)
          /\ \A j \in 1..Len(p) : (j < a \/ j > a + Len(text) - 1) => p[j] = WS

\* <<d, i>>: paragraph i of loaded document d is kept
KeptParagraphs ==
    UNION { {<<d, i>> : i \in {j \in 1..Len(documents[d].content) :
                                  ~Blank(documents[d].content[j])}} :
            d \in 1..Len(documents) }

\* the number of paragraphs of the set K that come before paragraph i of
\* document d
KeptBefore(K, d, i) ==
    Cardinality({p \in K : p[1] < d \/ (p[1] = d /\ p[2] < i)})

\* the number of paragraphs of K in document d that come before its
\* paragraph i
KeptBeforeInDocument(K, d, i) ==
    Cardinality({p \in K : p[1] = d /\ p[2] < i})

\* the chunks are the kept paragraphs K, document by document and in order,
\* each trimmed and tagged with its document's id
ChunksAreKeptParagraphs(K) ==
    /\ Len(chunks) = Cardinality(K)
    /\ \A p \in K :
          LET c == chunks[KeptBefore(K, p[1], p[2]) + 1]
          IN  /\ c.doc_id = documents[p[1]].id
              /\ TrimOf(documents[p[1]].content[p[2]], c.text)
    /\ \A k \in 1..Len(chunks) :
          \E d \in 1..Len(documents) : chunks[k].doc_id = documents[d].id

\* C12 as stated: the chunks are the trimmed non-empty paragraphs of the
\* loaded documents, and the n chunks of one document have the chunk ids
\* {doc_id}_0 ... {doc_id}_{n-1} in order
C12_AsStated ==
    pc # "new" =>
        LET K == KeptParagraphs
        IN  /\ ChunksAreKeptParagraphs(K)
            /\ \A p \in K :
                  chunks[KeptBefore(K, p[1], p[2]) + 1].chunk_id
                      = documents[p[1]].id
                            \o <<"_", ToString(KeptBeforeInDocument(K, p[1], p[2]))>>

\* C12 (amended): the chunks are the trimmed non-empty paragraphs of the
\* loaded documents, document by document and in order, each with the id of
\* its document, and the chunk id of a kept paragraph is
\* {doc_id}_{i} where i is the zero-based position of the paragraph among all
\* blank-line-separated paragraphs of its document, the dropped ones counted
C12_ParagraphIndexIds ==
    pc # "new" =>
        LET K == KeptParagraphs
        IN  /\ ChunksAreKeptParagraphs(K)
            /\ \A p \in K :
                  chunks[KeptBefore(K, p[1], p[2]) + 1].chunk_id
                      = documents[p[1]].id \o <<"_", ToString(p[2] - 1)>>

\* a constructed engine with a document that has a kept paragraph, then a
\* dropped one, then a kept one
C12_Witness ==
    /\ pc # "new"
    /\ \E d \in 1..Len(documents) :
          \E i, j, k \in 1..Len(documents[d].content) :
              /\ i < j /\ j < k
              /\ <<d, i>> \in KeptParagraphs
              /\ Blank(documents[d].content[j])
              /\ <<d, k>> \in KeptParagraphs
              /\ \E c \in 1..Len(chunks) :
                    chunks[c].chunk_id = documents[d].id \o <<"_", ToString(k - 1)>>

====
